---- MODULE Spec2Model ----
(***************************************************************************)
(* A state-machine model of agno.workflow.workflow.Workflow                *)
(* (src/libs/agno/agno/workflow/workflow.py).                              *)
(*                                                                         *)
(* One Workflow instance, the storage backend it talks to, the Agent       *)
(* object held as a class attribute of the subclass, and the lazy          *)
(* sequences (generators) its entry point has handed out.  Every public    *)
(* method is an action; the methods they call are operators on a record    *)
(* s = [wf, agent, db, uuids, calls, resets] of the whole program state.   *)
(*                                                                         *)
(* Collaborators that live outside workflow.py (Storage, WorkflowMemory,   *)
(* merge_dictionaries) are modelled from their contract in spec.md.        *)
(* Not modelled: set_debug / set_monitoring (log level and environment     *)
(* flags), the signature introspection of update_run_method, description,  *)
(* and the videos / audio lists, which are handled by code identical to    *)
(* that of images.                                                         *)
(***************************************************************************)
EXTENDS Integers, Sequences, FiniteSets, TLC

\* Bounds of the model.
MaxOps == 3       \* operations called on the instance: entry-point calls and
                  \* session operations (read, write, load, rename, ...)
MaxCalls == 2     \* of which calls of the entry point
MaxItems == 2     \* items yielded by the lazy sequences, all together

VARIABLES
    wf,       \* the fields of the Workflow instance
    agent,    \* session_id of the Agent held as a class attribute
    db,       \* the storage backend: session_id -> WorkflowSession record
    uuids,    \* number of uuid4() values drawn so far
    calls,    \* one record per run_workflow call: its RunResponse object,
              \* the generator it returned, and what its consumer observed
    resets,   \* number of new_session calls so far
    ops,      \* number of operations called on the instance so far
    last      \* outcome of the last operation: return value, raise, log

vars == <<wf, agent, db, uuids, calls, resets, ops, last>>

(***************************************************************************)
(* Values                                                                  *)
(***************************************************************************)
\* Python None, for string-valued optionals (ids, names, content).
None == "None"
\* Optional[object]: Null is None, Some(v) a set value.
Null == <<>>
Some(v) == <<v>>
Get(o) == o[1]

\* str(uuid4()): the n-th value drawn, different from every other one.
uuid4(n) == "uuid" \o ToString(n)

\* A dict is a function from its keys; a value is a scalar or a dict of scalars.
EmptyDict == <<>>
Scalar(n) == [kind |-> "scalar", n |-> n, d |-> EmptyDict]
Mapping(f) == [kind |-> "dict", n |-> 0, d |-> f]
IsDict(v) == v.kind = "dict"

\* merge_dictionaries(a, b): a updated in place with b, recursively where both
\* hold a dict under the same key; the value is a after the call.
merge_dictionaries(a, b) ==
    [k \in DOMAIN a \cup DOMAIN b |->
        IF k \notin DOMAIN b THEN a[k]
        ELSE IF k \in DOMAIN a /\ IsDict(a[k]) /\ IsDict(b[k])
             THEN Mapping([j \in DOMAIN a[k].d \cup DOMAIN b[k].d |->
                              IF j \in DOMAIN b[k].d THEN b[k].d[j] ELSE a[k].d[j]])
             ELSE b[k]]

\* RunResponse(run_id, session_id, workflow_id): content starts unset.
RunResponse(rid, sid, wid) ==
    [run_id |-> rid, session_id |-> sid, workflow_id |-> wid, content |-> None]
NoResponse == RunResponse(None, None, None)
\* isinstance(content, str) and content is not None
IsText(content) == content \notin {None, "<object>"}

\* Image artifacts.  A stored entry is a dict; ImageArtifact.model_validate
\* builds the object from it and raises ValidationError when the required id
\* is missing; model_dump gives the dict of an object back.
ImageArtifact(id) == [class |-> "ImageArtifact", id |-> id]
Malformed(entry) == entry.id = None
model_validate(entry) == ImageArtifact(entry.id)
model_dump(img) == [id |-> img.id]

(***************************************************************************)
(* Storage backend: read / upsert / delete_session by session id           *)
(***************************************************************************)
StorageRead(d, sid) == IF sid \in DOMAIN d THEN Some(d[sid]) ELSE Null
StorageUpsert(d, session) ==
    [k \in DOMAIN d \cup {session.session_id} |->
        IF k = session.session_id THEN session ELSE d[k]]
StorageDelete(d, sid) == [k \in DOMAIN d \ {sid} |-> d[k]]

(***************************************************************************)
(* WorkflowMemory: add_run, to_dict, and the runs rebuilt from a dict      *)
(***************************************************************************)
\* A run in live memory refers to a RunResponse object: the one created by
\* call number ref, or (ref = 0) one rebuilt from a stored record.
RunEntry(input, ref, response) == [input |-> input, ref |-> ref, response |-> response]
ResponseOf(e, cs) == IF e.ref # 0 THEN cs[e.ref].response ELSE e.response
add_run(mem, input, ref) == [mem EXCEPT !.runs = Append(@, RunEntry(input, ref, NoResponse))]
to_dict(mem, cs) ==
    [runs |-> [i \in 1..Len(mem.runs) |->
                  [input |-> mem.runs[i].input, response |-> ResponseOf(mem.runs[i], cs)]]]
\* Mutant of runs_from_dict: the stored runs are not taken over.
runs_from_dict_none(m) == <<>>

runs_from_dict(m) ==
    [i \in 1..Len(m.runs) |-> RunEntry(m.runs[i].input, 0, m.runs[i].response)]

(***************************************************************************)
(* Identity and memory setup                                               *)
(***************************************************************************)
set_storage_mode(s) ==
    IF s.wf.storage THEN [s EXCEPT !.wf.storage_mode = "workflow"] ELSE s

set_workflow_id(s) ==
    IF s.wf.workflow_id = None
    THEN [s EXCEPT !.wf.workflow_id = uuid4(s.uuids + 1), !.uuids = @ + 1]
    ELSE s

\* Mutant of set_session_id: a new id on every call.
set_session_id_always(s) ==
    [s EXCEPT !.wf.session_id = uuid4(s.uuids + 1), !.uuids = @ + 1]

set_session_id(s) ==
    IF s.wf.session_id = None
    THEN [s EXCEPT !.wf.session_id = uuid4(s.uuids + 1), !.uuids = @ + 1]
    ELSE s

initialize_memory(s) ==
    IF s.wf.memory = Null THEN [s EXCEPT !.wf.memory = Some([runs |-> <<>>])] ELSE s

\* fields(self): the dataclass fields of the instance with their declared type.
\* A declared type is an annotation (a class, or its name as a string under
\* "from __future__ import annotations"), never an Agent object.
FieldNames == {"name", "workflow_id", "user_id", "session_id", "session_name",
               "session_state", "memory", "storage", "extra_data",
               "run_id", "run_input", "run_response", "images"}
DeclaredFields == {[name |-> f, type |-> "annotation"] : f \in FieldNames}
IsAgentInstance(x) == x = "Agent object"

\* for f in fields(self): if isinstance(f.type, Agent): value.session_id = ...
update_agent_session_ids(s) ==
    IF \E f \in DeclaredFields : IsAgentInstance(f.type)
    THEN [s EXCEPT !.agent = s.wf.session_id]
    ELSE s

\* __post_init__: every Agent object in the class __dict__ gets the session id
\* the instance was constructed with.
post_init(w) == w.session_id

(***************************************************************************)
(* Session record: serialisation and merge                                 *)
(***************************************************************************)
get_workflow_data(w) == [name |-> w.name, workflow_id |-> w.workflow_id]

\* Mutant of get_session_data: session_state left out of the dump.
get_session_data_no_state(w) ==
    [session_name |-> w.session_name,
     has_session_state |-> FALSE,
     session_state |-> EmptyDict,
     images |-> Null]

get_session_data(w) ==
    [session_name |-> w.session_name,
     has_session_state |-> w.session_state # EmptyDict,
     session_state |-> w.session_state,
     images |-> IF w.images # Null
                THEN Some([i \in 1..Len(Get(w.images)) |-> model_dump(Get(w.images)[i])])
                ELSE Null]

get_workflow_session(s) ==
    [session_id |-> s.wf.session_id,
     workflow_id |-> s.wf.workflow_id,
     user_id |-> s.wf.user_id,
     memory |-> IF s.wf.memory # Null THEN Some(to_dict(Get(s.wf.memory), s.calls)) ELSE Null,
     workflow_data |-> get_workflow_data(s.wf),
     session_data |-> get_session_data(s.wf),
     extra_data |-> s.wf.extra_data]

\* Mutant of LoadSessionState: the merge taken the other way round, so that the
\* persisted value wins on a shared key.
LoadSessionState_persisted_wins(live, sd) ==
    IF sd.has_session_state /\ sd.session_state # EmptyDict
    THEN IF live # EmptyDict
         THEN merge_dictionaries(live, sd.session_state)
         ELSE sd.session_state
    ELSE live

\* Mutant of LoadSessionState: a key held on both sides is dropped.
LoadSessionState_drops_shared(live, sd) ==
    IF sd.has_session_state /\ sd.session_state # EmptyDict /\ live # EmptyDict
    THEN [k \in (DOMAIN live \cup DOMAIN sd.session_state)
                  \ (DOMAIN live \cap DOMAIN sd.session_state) |->
             IF k \in DOMAIN live THEN live[k] ELSE sd.session_state[k]]
    ELSE IF sd.has_session_state /\ sd.session_state # EmptyDict
         THEN sd.session_state ELSE live

\* The session_state step (lines 387-400): the value adopted as live state.
LoadSessionState(live, sd) ==
    IF sd.has_session_state /\ sd.session_state # EmptyDict
    THEN IF live # EmptyDict
         THEN merge_dictionaries(sd.session_state, live)
         ELSE sd.session_state
    ELSE live

\* Mutant of LoadExtraData: the live mapping is the merge target, so that the
\* persisted value wins on a shared key.
LoadExtraData_persisted_wins(live, persisted) ==
    IF persisted # Null
    THEN IF live # Null
         THEN Some(merge_dictionaries(Get(live), Get(persisted)))
         ELSE persisted
    ELSE live

\* The extra_data step (lines 422-429).
LoadExtraData(live, persisted) ==
    IF persisted # Null
    THEN IF live # Null
         THEN Some(merge_dictionaries(Get(persisted), Get(live)))
         ELSE persisted
    ELSE live

\* Mutant of LoadIdentity: user_id taken from the record whenever it holds one.
LoadIdentity_overwrite(w, session) ==
    [w EXCEPT
        !.workflow_id = IF @ = None /\ session.workflow_id # None
                        THEN session.workflow_id ELSE @,
        !.user_id = IF session.user_id # None THEN session.user_id ELSE @,
        !.session_id = IF @ = None /\ session.session_id # None
                       THEN session.session_id ELSE @]

\* The identifier and name steps (lines 367-385): filled only when unset.
LoadIdentity(w, session) ==
    [w EXCEPT
        !.workflow_id = IF @ = None /\ session.workflow_id # None
                        THEN session.workflow_id ELSE @,
        !.user_id = IF @ = None /\ session.user_id # None
                    THEN session.user_id ELSE @,
        !.session_id = IF @ = None /\ session.session_id # None
                       THEN session.session_id ELSE @,
        !.name = IF @ = None /\ session.workflow_data.name # None
                 THEN session.workflow_data.name ELSE @,
        !.session_name = IF @ = None /\ session.session_data.session_name # None
                         THEN session.session_data.session_name ELSE @]

\* The images step (lines 402-408) raises: an entry of the stored list fails
\* model_validate, and nothing around the list comprehension catches it.
LoadRaises(session) ==
    /\ session.session_data.images # Null
    /\ \E i \in 1..Len(Get(session.session_data.images)) :
           Malformed(Get(session.session_data.images)[i])

\* load_workflow_session(session): the instance after the load, and the
\* session record, whose session_state and extra_data dicts the merge has
\* updated in place and which the instance now shares.  Where the images
\* step raises, the steps before it have been applied, self.images is a list,
\* and the steps after it (extra_data, memory) have not run.
load_workflow_session(w, session) ==
    LET w1 == LoadIdentity(w, session)
        sd == session.session_data
        state == LoadSessionState(w.session_state, sd)
        own == IF w.images = Null THEN <<>> ELSE Get(w.images)
        imgs == IF sd.images # Null
                THEN IF LoadRaises(session) THEN Some(own)
                     ELSE Some(own \o [i \in 1..Len(Get(sd.images)) |->
                                          model_validate(Get(sd.images)[i])])
                ELSE w.images
        extra == LoadExtraData(w.extra_data, session.extra_data)
        mem == IF session.memory # Null
               THEN Some([(IF w.memory = Null THEN [runs |-> <<>>] ELSE Get(w.memory))
                            EXCEPT !.runs = runs_from_dict(Get(session.memory))])
               ELSE w.memory
    IN  [w |-> IF LoadRaises(session)
               THEN [w1 EXCEPT !.session_state = state, !.images = imgs]
               ELSE [w1 EXCEPT !.session_state = state, !.images = imgs,
                               !.extra_data = extra, !.memory = mem],
         session |-> [session EXCEPT
                         !.session_data.session_state =
                             IF sd.has_session_state /\ sd.session_state # EmptyDict
                             THEN state ELSE @,
                         !.extra_data = IF @ # Null /\ ~LoadRaises(session)
                                        THEN extra ELSE @]]

\* read_from_storage raises: a record is found and its load raises.
read_raises(s) ==
    /\ s.wf.storage
    /\ s.wf.session_id # None
    /\ StorageRead(s.db, s.wf.session_id) # Null
    /\ LoadRaises(Get(StorageRead(s.db, s.wf.session_id)))

read_from_storage(s) ==
    IF s.wf.storage /\ s.wf.session_id # None
    THEN LET found == StorageRead(s.db, s.wf.session_id)
         IN  IF found # Null
             THEN LET l == load_workflow_session(s.wf, Get(found))
                  IN  [s EXCEPT !.wf = [l.w EXCEPT !.workflow_session = Some(l.session)]]
             ELSE [s EXCEPT !.wf.workflow_session = Null]
    ELSE s

\* Mutant of write_to_storage: the upsert made whether storage is set or not.
write_to_storage_unguarded(s) ==
    LET session == get_workflow_session(s)
    IN  [s EXCEPT !.db = StorageUpsert(s.db, session),
                  !.wf.workflow_session = Some(session)]

write_to_storage(s) ==
    IF s.wf.storage
    THEN LET session == get_workflow_session(s)
         IN  [s EXCEPT !.db = StorageUpsert(s.db, session),
                       !.wf.workflow_session = Some(session)]
    ELSE s

(***************************************************************************)
(* Session lifecycle operations                                            *)
(***************************************************************************)
\* The early return of load_session: a cached record for the current id.
SessionCached(s, force) ==
    /\ s.wf.workflow_session # Null
    /\ ~force
    /\ s.wf.session_id # None
    /\ Get(s.wf.workflow_session).session_id = s.wf.session_id

load_session_raises(s, force) == ~SessionCached(s, force) /\ read_raises(s)

load_session(s, force) ==
    IF SessionCached(s, force) THEN s
    ELSE IF s.wf.storage
         THEN LET r == read_from_storage(s)
              IN  IF read_raises(s) THEN r
                  ELSE IF r.wf.workflow_session = Null THEN write_to_storage(r) ELSE r
         ELSE s

load_session_result(s, force) ==
    IF SessionCached(s, force)
    THEN Get(s.wf.workflow_session).session_id
    ELSE load_session(s, force).wf.session_id

\* Mutant of new_session: the cached record is dropped but the id is kept.
new_session_keeps_id(s) ==
    load_session([s EXCEPT !.wf.workflow_session = Null, !.resets = @ + 1], TRUE)

new_session(s) ==
    load_session([s EXCEPT !.wf.workflow_session = Null,
                           !.wf.session_id = uuid4(s.uuids + 1),
                           !.uuids = @ + 1,
                           !.resets = @ + 1], TRUE)

\* Mutant of rename: the field is set and the session written without the
\* read of the stored record first.
rename_without_read(s, name) ==
    write_to_storage([s EXCEPT !.wf.name = name])

rename(s, name) ==
    IF read_raises(s) THEN read_from_storage(s)
    ELSE write_to_storage([read_from_storage(s) EXCEPT !.wf.name = name])

rename_session(s, session_name) ==
    IF read_raises(s) THEN read_from_storage(s)
    ELSE write_to_storage([read_from_storage(s) EXCEPT !.wf.session_name = session_name])

delete_session(s, session_id) ==
    IF ~s.wf.storage THEN s ELSE [s EXCEPT !.db = StorageDelete(s.db, session_id)]

(***************************************************************************)
(* deep_copy                                                               *)
(***************************************************************************)
\* The keyword parameters of Workflow.__init__ (lines 74-90).
InitParameters == {"name", "workflow_id", "user_id", "session_id", "session_name",
                   "session_state", "memory", "storage", "extra_data"}

\* getattr(self, f.name) is None
FieldIsNone(w, f) ==
    CASE f \in {"memory", "extra_data", "images"} -> w[f] = Null
      [] f = "storage" -> ~w.storage
      [] f = "run_response" -> w.run_response = 0
      [] f = "session_state" -> FALSE
      [] OTHER -> w[f] = None

\* The names in fields_for_new_workflow: the declared fields that are not
\* None, and the keys of update.
fields_for_new_workflow(w, update) ==
    {d.name : d \in {e \in DeclaredFields : ~FieldIsNone(w, e.name)}} \cup DOMAIN update

\* self.__class__(**fields_for_new_workflow) raises TypeError on a keyword
\* that __init__ does not take.
deep_copy_raises(w, update) == fields_for_new_workflow(w, update) \ InitParameters # {}

\* memory.deep_copy(): the runs with their responses copied.
memory_deep_copy(mem, cs) ==
    [runs |-> [i \in 1..Len(mem.runs) |->
                  RunEntry(mem.runs[i].input, 0, ResponseOf(mem.runs[i], cs))]]

\* The instance deep_copy builds where the constructor accepts the keywords.
deep_copy(s, update) ==
    LET w == s.wf
        arg(f) == IF f \in DOMAIN update THEN update[f] ELSE w[f]
    IN  [w EXCEPT !.name = arg("name"),
                  !.workflow_id = arg("workflow_id"),
                  !.user_id = arg("user_id"),
                  !.session_id = arg("session_id"),
                  !.session_name = arg("session_name"),
                  !.memory = IF w.memory = Null THEN Null
                             ELSE Some(memory_deep_copy(Get(w.memory), s.calls)),
                  !.run_id = None, !.run_input = None, !.run_response = 0,
                  !.images = Null, !.workflow_session = Null]

(***************************************************************************)
(* The entry point: run_workflow, and Workflow.run where not overridden    *)
(***************************************************************************)
\* What the run_workflow call numbered Len(calls)+1 starts with.  response is
\* the RunResponse object of line 155; the other fields record the call for
\* the properties: the ids it was given, what the routine produced, what the
\* consumer received, and the bookkeeping the call's own code performed.
NewCall(kwargs, rid, sid, wid, epoch, alone) ==
    [input |-> kwargs, run_id |-> rid, session_id |-> sid, workflow_id |-> wid,
     epoch |-> epoch, agent_sid |-> None, outcome |-> "pending", gen |-> "none",
     response |-> RunResponse(rid, sid, wid), result |-> NoResponse,
     produced |-> <<>>, received |-> <<>>, appended |-> 0, written |-> 0,
     asked |-> 0, logs |-> {}, exclusive |-> alone]

\* A run has exclusive use of the instance when no lazy sequence of an earlier
\* call is still open as it starts, and the entry point is not called again
\* and the session not reset before its own lazy sequence ends.
NoneActive(cs) == \A i \in 1..Len(cs) : cs[i].gen # "active"
Interleave(cs) ==
    [i \in 1..Len(cs) |-> IF cs[i].gen = "active" THEN [cs[i] EXCEPT !.exclusive = FALSE]
                          ELSE cs[i]]

\* run_workflow up to the read of the stored session (lines 142-155).
run_workflow_setup(s, kwargs) ==
    LET s4 == initialize_memory(set_session_id(set_workflow_id(set_storage_mode(s))))
        rid == uuid4(s4.uuids + 1)
    IN  [s4 EXCEPT !.uuids = @ + 1,
                   !.wf.run_id = rid,
                   !.wf.run_input = kwargs,
                   !.wf.run_response = Len(s.calls) + 1,
                   !.calls = Append(Interleave(@),
                                    NewCall(kwargs, rid, s4.wf.session_id,
                                            s4.wf.workflow_id, s4.resets,
                                            NoneActive(s.calls)))]

\* The read at line 158 raises: the routine is never called.
run_workflow_raises(s, kwargs) == read_raises(run_workflow_setup(s, kwargs))

\* run_workflow up to the call of the subclass routine (lines 142-161), or to
\* the raise of the read.
run_workflow_begin(s, kwargs) ==
    LET c == Len(s.calls) + 1
        s5 == run_workflow_setup(s, kwargs)
        s6 == update_agent_session_ids(read_from_storage(s5))
    IN  IF read_raises(s5)
        THEN [read_from_storage(s5) EXCEPT !.calls[c].outcome = "load_raised"]
        ELSE [s6 EXCEPT !.calls[c].agent_sid = s6.agent]

\* The trailing bookkeeping of a run, performed by the code of call c:
\* memory.add_run(WorkflowRun(input=self.run_input, response=self.run_response))
\* and write_to_storage().
record_run(s, c) ==
    LET s1 == [s EXCEPT !.wf.memory = Some(add_run(Get(@), s.wf.run_input, s.wf.run_response)),
                        !.calls[c].appended = @ + 1]
        s2 == write_to_storage(s1)
    IN  [s2 EXCEPT !.calls[c].written = IF s.wf.storage THEN @ + 1 ELSE @]

\* Mutant of run_workflow_iterator: the run is recorded as the generator is
\* returned, before anything is consumed.
run_workflow_iterator_eager(s, c) ==
    record_run([s EXCEPT !.calls[c].outcome = "generator",
                         !.calls[c].gen = "active",
                         !.calls[s.wf.run_response].response.content = ""], c)

\* Case 1 (lines 173-200): content is set to "" and the generator object is
\* returned; nothing of its body has run yet.
run_workflow_iterator(s, c) ==
    [s EXCEPT !.calls[c].outcome = "generator",
              !.calls[c].gen = "active",
              !.calls[s.wf.run_response].response.content = ""]

\* Mutant of run_workflow_response: the session is written, the run is not
\* appended first.
run_workflow_response_no_append(s, c, content) ==
    LET s1 == [s EXCEPT !.calls[c].outcome = "response",
                        !.calls[c].result = [run_id |-> s.wf.run_id,
                                             session_id |-> s.wf.session_id,
                                             workflow_id |-> s.wf.workflow_id,
                                             content |-> content],
                        !.calls[s.wf.run_response].response.content =
                            IF IsText(content) THEN content ELSE @]
    IN  [write_to_storage(s1) EXCEPT !.calls[c].written = IF s.wf.storage THEN @ + 1 ELSE @]

\* Case 2 (lines 202-217): the routine returned a RunResponse with this content.
run_workflow_response(s, c, content) ==
    LET s1 == [s EXCEPT !.calls[c].outcome = "response",
                        !.calls[c].result = [run_id |-> s.wf.run_id,
                                             session_id |-> s.wf.session_id,
                                             workflow_id |-> s.wf.workflow_id,
                                             content |-> content],
                        !.calls[s.wf.run_response].response.content =
                            IF IsText(content) THEN content ELSE @]
    IN  record_run(s1, c)

\* The body of result_generator for one item of the routine (lines 181-192).
\* "+=" on a content of None raises TypeError.
Stamp(s, item) ==
    IF item.type = "RunResponse"
    THEN [item |-> item, run_id |-> s.wf.run_id, session_id |-> s.wf.session_id,
          workflow_id |-> s.wf.workflow_id]
    ELSE [item |-> item, run_id |-> None, session_id |-> None, workflow_id |-> None]

Accumulates(item) == item.type = "RunResponse" /\ IsText(item.content)

ContentTypeError(s, item) ==
    Accumulates(item) /\ s.calls[s.wf.run_response].response.content = None

\* Mutant of result_generator_item: "=" where the code has "+=".
result_generator_item_overwrite(s, c, item) ==
    [s EXCEPT !.calls[c].asked = @ + 1,
              !.calls[c].produced = Append(@, item),
              !.calls[c].received = Append(@, Stamp(s, item)),
              !.calls[s.wf.run_response].response.content =
                  IF Accumulates(item) THEN item.content ELSE @]

result_generator_item(s, c, item) ==
    IF ContentTypeError(s, item)
    THEN [s EXCEPT !.calls[c].asked = @ + 1,
                   !.calls[c].produced = Append(@, item),
                   !.calls[c].gen = "failed"]
    ELSE [s EXCEPT !.calls[c].asked = @ + 1,
                   !.calls[c].produced = Append(@, item),
                   !.calls[c].received = Append(@, Stamp(s, item)),
                   !.calls[c].logs = IF item.type = "RunResponse" THEN @ ELSE @ \cup {"warning"},
                   !.calls[s.wf.run_response].response.content =
                       IF Accumulates(item) THEN @ \o item.content ELSE @]

\* After the for loop (lines 194-198).
result_generator_end(s, c) ==
    [record_run(s, c) EXCEPT !.calls[c].asked = @ + 1, !.calls[c].gen = "done"]

(***************************************************************************)
(* Inputs                                                                  *)
(***************************************************************************)
Inputs == {"k1", "k2"}
Names == {"n1"}
Items == {[type |-> "RunResponse", content |-> "a"],
          [type |-> "RunResponse", content |-> "b"],
          [type |-> "RunResponse", content |-> None],
          [type |-> "other", content |-> None]}
Contents == {"a", "<object>"}
\* The update mappings deep_copy is called with.
Updates == {EmptyDict, [session_id |-> "s2"]}

\* A record an earlier instance left in storage under session id "s1".
StoredBefore ==
    [session_id |-> "s1", workflow_id |-> "w0", user_id |-> "u0",
     memory |-> Some([runs |-> <<[input |-> "k0",
                                  response |-> [run_id |-> "r0", session_id |-> "s1",
                                                workflow_id |-> "w0", content |-> "z"]]>>]),
     workflow_data |-> [name |-> "Stored", workflow_id |-> "w0"],
     session_data |-> [session_name |-> "sn0", has_session_state |-> TRUE,
                       session_state |-> ("x" :> Scalar(1) @@ "y" :> Scalar(3)),
                       images |-> Null],
     extra_data |-> Null]

\* The image lists of the stored records: a well-formed entry, and a list
\* whose entry lacks its id.
StoredImages == {<<[id |-> "i1"]>>, <<[id |-> None]>>}

\* Workflow.__init__ (lines 74-128) of a subclass named "Workflow1".
Construct(overridden, workflow_id, user_id, session_id, session_state, storage) ==
    [name |-> "Workflow1", workflow_id |-> workflow_id, user_id |-> user_id,
     session_id |-> session_id, session_name |-> None, session_state |-> session_state,
     memory |-> Null, storage |-> storage, storage_mode |-> "unset", extra_data |-> Null,
     run_id |-> None, run_input |-> None, run_response |-> 0, images |-> Null,
     workflow_session |-> Null, overridden |-> overridden]

\* The outcome of an operation as its caller sees it: ret names the value
\* returned, obj is that value where it is an object (a session record, a
\* Workflow).  call is the generator stepped, for the steps of a lazy sequence.
Done(op, ret) ==
    [op |-> op, call |-> 0, ret |-> ret, obj |-> Null, raised |-> FALSE, logs |-> {}]
Raised(op) == [Done(op, None) EXCEPT !.raised = TRUE]
\* The cached record as read_from_storage and write_to_storage return it.
Cached(op, w) ==
    [Done(op, IF w.workflow_session = Null THEN None ELSE "WorkflowSession")
        EXCEPT !.obj = w.workflow_session]
Next_(c, ret) == [Done("next", ret) EXCEPT !.call = c]

\* The constructor arguments and the storage the instance starts with.
Configurations ==
    {[wf |-> Construct(o, None, None, None, EmptyDict, FALSE), db |-> <<>>] : o \in BOOLEAN}
    \cup {[wf |-> Construct(TRUE, "w1", "u1", "s1", "x" :> Scalar(2), FALSE), db |-> <<>>]}
    \cup {[wf |-> Construct(o, None, None, None, EmptyDict, TRUE), db |-> <<>>] : o \in BOOLEAN}
    \cup {[wf |-> Construct(TRUE, None, None, "s1", EmptyDict, TRUE), db |-> d] :
              d \in {<<>>, "s1" :> StoredBefore}}
    \cup {[wf |-> Construct(o, "w1", "u1", "s1", "x" :> Scalar(2), TRUE),
           db |-> "s1" :> StoredBefore] : o \in BOOLEAN}
    \cup {[wf |-> Construct(TRUE, None, None, "s1", EmptyDict, TRUE),
           db |-> "s1" :> [StoredBefore EXCEPT !.session_data.images = Some(imgs)]] :
              imgs \in StoredImages}

Init ==
    /\ \E cfg \in Configurations : wf = cfg.wf /\ db = cfg.db
    /\ agent = post_init(wf)
    /\ uuids = 0
    /\ calls = <<>>
    /\ resets = 0
    /\ ops = 0
    /\ last = Done("init", None)

(***************************************************************************)
(* Actions                                                                 *)
(***************************************************************************)
Cur == [wf |-> wf, agent |-> agent, db |-> db, uuids |-> uuids, calls |-> calls,
        resets |-> resets]

Commit(s, l) ==
    /\ wf' = s.wf
    /\ agent' = s.agent
    /\ db' = s.db
    /\ uuids' = s.uuids
    /\ calls' = s.calls
    /\ resets' = s.resets
    /\ last' = l

\* A step of a lazy sequence: no operation is called on the instance.
Step(s, l) == Commit(s, l) /\ UNCHANGED ops

\* An operation called on the instance by its user.
Op(s, l) == ops < MaxOps /\ Commit(s, l) /\ ops' = ops + 1

RECURSIVE Yielded(_, _)
Yielded(cs, n) == IF n = 0 THEN 0 ELSE Len(cs[n].produced) + Yielded(cs, n - 1)

CanCall == wf.overridden /\ Len(calls) < MaxCalls

\* Mutant of Run: the base method sets the ids up as run_workflow does.
Run_sets_ids ==
    /\ ~wf.overridden
    /\ Op(set_session_id(set_workflow_id(Cur)), [Done("run", None) EXCEPT !.logs = {"error"}])

\* Workflow.run, reached when the subclass does not override run.
Run ==
    /\ ~wf.overridden
    /\ Op(Cur, [Done("run", None) EXCEPT !.logs = {"error"}])

\* Keyword arguments of call c; which of the two the first call passes makes
\* no difference.
InputsOf(c) == IF c = 1 THEN {"k1"} ELSE Inputs

\* The read of the stored session raises out of run_workflow (line 158).
RunLoadRaises(kwargs) ==
    /\ CanCall
    /\ run_workflow_raises(Cur, kwargs)
    /\ Op(run_workflow_begin(Cur, kwargs), Raised("run"))

\* The routine raises when called (lines 164-169).
RunRaises(kwargs) ==
    /\ CanCall
    /\ ~run_workflow_raises(Cur, kwargs)
    /\ LET s == run_workflow_begin(Cur, kwargs)
           c == Len(s.calls)
       IN  Op([s EXCEPT !.calls[c].outcome = "raised", !.calls[c].logs = {"error"}],
              [Done("run", None) EXCEPT !.raised = TRUE, !.logs = {"error"}])

\* The routine returns a lazy sequence.
RunReturnsIterator(kwargs) ==
    /\ CanCall
    /\ ~run_workflow_raises(Cur, kwargs)
    /\ LET s == run_workflow_begin(Cur, kwargs)
           c == Len(s.calls)
       IN  Op(run_workflow_iterator(s, c), Done("run", "generator"))

\* The routine returns a single RunResponse.
RunReturnsResponse(kwargs, content) ==
    /\ CanCall
    /\ ~run_workflow_raises(Cur, kwargs)
    /\ LET s == run_workflow_begin(Cur, kwargs)
           c == Len(s.calls)
       IN  Op(run_workflow_response(s, c, content), Done("run", "RunResponse"))

\* Mutant of RunReturnsOther: the run is recorded all the same.
RunReturnsOther_recorded(kwargs) ==
    /\ CanCall
    /\ ~run_workflow_raises(Cur, kwargs)
    /\ LET s == run_workflow_begin(Cur, kwargs)
           c == Len(s.calls)
       IN  Op(record_run([s EXCEPT !.calls[c].outcome = "other",
                                   !.calls[c].logs = {"warning"}], c),
              [Done("run", None) EXCEPT !.logs = {"warning"}])

\* The routine returns anything else (lines 218-220).
RunReturnsOther(kwargs) ==
    /\ CanCall
    /\ ~run_workflow_raises(Cur, kwargs)
    /\ LET s == run_workflow_begin(Cur, kwargs)
           c == Len(s.calls)
       IN  Op([s EXCEPT !.calls[c].outcome = "other", !.calls[c].logs = {"warning"}],
              [Done("run", None) EXCEPT !.logs = {"warning"}])

\* The consumer asks generator c for its next item and the routine yields one.
GenYield(c, item) ==
    /\ calls[c].gen = "active"
    /\ Yielded(calls, Len(calls)) < MaxItems
    /\ Step(result_generator_item(Cur, c, item),
            [Next_(c, "item") EXCEPT !.raised = ContentTypeError(Cur, item)])

\* The consumer asks for the next item and the routine's sequence is exhausted.
GenExhaust(c) ==
    /\ calls[c].gen = "active"
    /\ Step(result_generator_end(Cur, c), Next_(c, "StopIteration"))

\* The consumer asks for the next item and the routine raises: nothing in
\* result_generator catches it.
GenRaise(c) ==
    /\ calls[c].gen = "active"
    /\ Step([Cur EXCEPT !.calls[c].asked = @ + 1, !.calls[c].gen = "raised"],
            [Next_(c, None) EXCEPT !.raised = TRUE])

\* The consumer abandons generator c: the generator is closed where it stands.
GenClose(c) ==
    /\ calls[c].gen = "active"
    /\ Step([Cur EXCEPT !.calls[c].gen = "closed"], [Done("close", None) EXCEPT !.call = c])

ReadFromStorage ==
    LET s == read_from_storage(Cur)
    IN  Op(s, IF read_raises(Cur) THEN Raised("read_from_storage")
              ELSE Cached("read_from_storage", s.wf))

WriteToStorage ==
    LET s == write_to_storage(Cur)
    IN  Op(s, Cached("write_to_storage", s.wf))

LoadSession(force) ==
    Op(load_session(Cur, force),
       IF load_session_raises(Cur, force) THEN Raised("load_session")
       ELSE Done("load_session", load_session_result(Cur, force)))

NewSession ==
    /\ LET s == new_session(Cur)
       IN  Op([s EXCEPT !.calls = Interleave(@)], Done("new_session", None))

Rename(name) ==
    Op(rename(Cur, name), IF read_raises(Cur) THEN Raised("rename") ELSE Done("rename", None))

RenameSession(name) ==
    Op(rename_session(Cur, name),
       IF read_raises(Cur) THEN Raised("rename_session") ELSE Done("rename_session", None))

DeleteSession(session_id) ==
    Op(delete_session(Cur, session_id), Done("delete_session", None))

\* deep_copy(update=update): the instance itself is left as it is.
DeepCopy(update) ==
    Op(Cur, IF deep_copy_raises(wf, update) THEN Raised("deep_copy")
            ELSE [Done("deep_copy", "Workflow") EXCEPT !.obj = Some(deep_copy(Cur, update))])

Next ==
    \/ Run
    \/ \E k \in InputsOf(Len(calls) + 1) : RunLoadRaises(k)
    \/ \E k \in InputsOf(Len(calls) + 1) : RunRaises(k)
    \/ \E k \in InputsOf(Len(calls) + 1) : RunReturnsIterator(k)
    \/ \E k \in InputsOf(Len(calls) + 1), content \in Contents : RunReturnsResponse(k, content)
    \/ \E k \in InputsOf(Len(calls) + 1) : RunReturnsOther(k)
    \/ \E c \in 1..Len(calls), item \in Items : GenYield(c, item)
    \/ \E c \in 1..Len(calls) : GenExhaust(c)
    \/ \E c \in 1..Len(calls) : GenRaise(c)
    \/ \E c \in 1..Len(calls) : GenClose(c)
    \/ ReadFromStorage
    \/ WriteToStorage
    \/ \E force \in BOOLEAN : LoadSession(force)
    \/ NewSession
    \/ \E name \in Names : Rename(name)
    \/ \E name \in Names : RenameSession(name)
    \/ \E sid \in DOMAIN db \cup {wf.session_id} : DeleteSession(sid)
    \/ \E update \in Updates : DeepCopy(update)

\* The session_state merge on every pair of live and persisted mappings.
Keys == {"x", "y"}
Values == {Scalar(1), Scalar(2), Mapping("a" :> 1), Mapping("a" :> 2 @@ "b" :> 2)}
Dicts == UNION {[D -> Values] : D \in SUBSET Keys}

InitMerge ==
    /\ \E live \in Dicts, persisted \in Dicts, has \in BOOLEAN :
          /\ has \/ persisted = EmptyDict
          /\ wf = Construct(TRUE, "w1", "u1", "s1", live, TRUE)
          /\ db = "s1" :> [StoredBefore EXCEPT
                              !.session_data.has_session_state = has,
                              !.session_data.session_state = persisted]
    /\ agent = post_init(wf)
    /\ uuids = 0
    /\ calls = <<>>
    /\ resets = 0
    /\ ops = 0
    /\ last = Done("init", None)

NextMerge == ReadFromStorage

SpecMerge == InitMerge /\ [][NextMerge]_vars

\* The extra_data merge on every pair of live and persisted extra_data.
Extras == {Null} \cup {Some(d) : d \in Dicts}

InitExtra ==
    /\ \E live \in Extras, persisted \in Extras :
          /\ wf = [Construct(TRUE, "w1", "u1", "s1", EmptyDict, TRUE)
                      EXCEPT !.extra_data = live]
          /\ db = "s1" :> [StoredBefore EXCEPT !.extra_data = persisted]
    /\ agent = post_init(wf)
    /\ uuids = 0
    /\ calls = <<>>
    /\ resets = 0
    /\ ops = 0
    /\ last = Done("init", None)

NextExtra == ReadFromStorage

SpecExtra == InitExtra /\ [][NextExtra]_vars

Spec == Init /\ [][Next]_vars

(***************************************************************************)
(* Properties                                                              *)
(***************************************************************************)
CallIds == 1..Len(calls)
LiveRuns == IF wf.memory = Null THEN <<>> ELSE Get(wf.memory).runs

\* The in-order concatenation of the textual contents of the RunResponse items.
RECURSIVE TextOf(_)
TextOf(items) ==
    IF items = <<>> THEN ""
    ELSE LET h == Head(items)
         IN  (IF h.type = "RunResponse" /\ h.content \notin {None, "<object>"}
              THEN h.content ELSE "") \o TextOf(Tail(items))

\* An item as the consumer must see it: a RunResponse carries the ids of call c.
Stamped(c, item) ==
    IF item.type = "RunResponse"
    THEN [item |-> item, run_id |-> calls[c].run_id, session_id |-> calls[c].session_id,
          workflow_id |-> calls[c].workflow_id]
    ELSE [item |-> item, run_id |-> None, session_id |-> None, workflow_id |-> None]

\* The run of call c as a stored record holds it.
StoredRun(c) ==
    [input |-> calls[c].input,
     response |-> [run_id |-> calls[c].run_id, session_id |-> calls[c].session_id,
                   workflow_id |-> calls[c].workflow_id,
                   content |-> TextOf(calls[c].produced)]]

LoadStep(op) ==
    /\ last'.op = op
    /\ ops' = ops + 1
    /\ wf.storage
    /\ wf.session_id \in DOMAIN db
PersistedState == db[wf.session_id].session_data.session_state

\* C2 as claimed: where both mappings are non-empty the live state becomes the
\* persisted mapping overlaid with the live one, the live value standing under
\* every shared key; an empty live mapping becomes the persisted one; an empty
\* or absent persisted mapping leaves the live one unchanged.
C2_ShallowOverlay ==
    [][LoadStep("read_from_storage") =>
          LET l == wf.session_state
              p == PersistedState
              r == wf'.session_state
          IN  /\ (l # EmptyDict /\ p # EmptyDict) =>
                     r = [k \in DOMAIN p \cup DOMAIN l |->
                             IF k \in DOMAIN l THEN l[k] ELSE p[k]]
              /\ (l = EmptyDict /\ p # EmptyDict) => r = p
              /\ p = EmptyDict => r = l]_vars

\* C2 amended: as C2, except that under a shared key where both values are
\* mappings the result is the persisted inner mapping overlaid with the live
\* inner one (the merge is recursive); under every other shared key the live
\* value stands.
C2_DeepOverlay ==
    [][LoadStep("read_from_storage") =>
          LET l == wf.session_state
              p == PersistedState
              r == wf'.session_state
              both(k) == k \in DOMAIN l /\ k \in DOMAIN p /\ IsDict(l[k]) /\ IsDict(p[k])
          IN  /\ (l # EmptyDict /\ p # EmptyDict) =>
                     /\ DOMAIN r = DOMAIN p \cup DOMAIN l
                     /\ \A k \in DOMAIN r :
                            /\ k \notin DOMAIN l => r[k] = p[k]
                            /\ (k \in DOMAIN l /\ ~both(k)) => r[k] = l[k]
                            /\ both(k) =>
                                   /\ IsDict(r[k])
                                   /\ DOMAIN r[k].d = DOMAIN p[k].d \cup DOMAIN l[k].d
                                   /\ \A j \in DOMAIN r[k].d :
                                          r[k].d[j] = IF j \in DOMAIN l[k].d
                                                      THEN l[k].d[j] ELSE p[k].d[j]
              /\ (l = EmptyDict /\ p # EmptyDict) => r = p
              /\ p = EmptyDict => r = l]_vars

\* A load has merged a live {x: {a: 1}} into a persisted {x: {a: 2, b: 2}, y: ..}.
C2_Witness ==
    /\ last.op = "read_from_storage"
    /\ DOMAIN wf.session_state = {"x", "y"}
    /\ wf.session_state["x"] = Mapping("a" :> 1 @@ "b" :> 2)
    /\ wf.session_state["y"] = Scalar(2)

\* C3: every call of the entry point has a run_id different from that of every
\* earlier call; all calls carry the same workflow_id, and the same session_id
\* unless new_session was called between them; the instance keeps those ids.
C3_RunIdsDistinctIdsStable ==
    /\ \A i, j \in CallIds :
           i < j =>
               /\ calls[i].run_id # calls[j].run_id
               /\ calls[i].workflow_id = calls[j].workflow_id
               /\ calls[i].epoch = calls[j].epoch => calls[i].session_id = calls[j].session_id
    /\ \A i \in CallIds :
           /\ calls[i].run_id # None /\ calls[i].workflow_id # None /\ calls[i].session_id # None
           /\ wf.workflow_id = calls[i].workflow_id
           /\ calls[i].epoch = resets => wf.session_id = calls[i].session_id

\* Two calls on an instance constructed without ids, the second after a load
\* of the session the first one stored.
C3_Witness ==
    /\ Len(calls) = 2
    /\ calls[1].epoch = calls[2].epoch
    /\ calls[1].session_id \notin {None, "s1"}
    /\ calls[1].workflow_id \notin {None, "w1"}
    /\ wf.workflow_session # Null
    /\ calls[1].session_id \in DOMAIN db

\* C4: where run is not overridden, a call of the entry point logs an error,
\* returns None without raising, and changes nothing: no record is read into
\* the instance or written, no run is appended, no id is generated.
C4_RunNotImplemented ==
    [][(~wf.overridden /\ last'.op = "run" /\ ops' = ops + 1) =>
          /\ last'.ret = None
          /\ ~last'.raised
          /\ "error" \in last'.logs
          /\ UNCHANGED <<wf, agent, db, uuids, calls, resets>>]_vars

C4_Witness ==
    /\ ~wf.overridden
    /\ last.op = "run"
    /\ wf.storage
    /\ wf.session_id \in DOMAIN db
    /\ wf.workflow_session = Null
    /\ wf.run_id = None

\* C5: no item is taken from the routine before the consumer asks for one, and
\* the code of a call whose routine returned a lazy sequence appends its run
\* and writes the session only once that sequence is exhausted: never while it
\* is open, and never if the consumer abandons it.
C5_LazyBookkeeping ==
    \A c \in CallIds :
        calls[c].outcome = "generator" =>
            /\ Len(calls[c].produced) <= calls[c].asked
            /\ Len(calls[c].received) <= Len(calls[c].produced)
            /\ calls[c].gen # "done" => calls[c].appended = 0 /\ calls[c].written = 0
            /\ calls[c].gen = "done" => calls[c].appended = 1 /\ calls[c].written <= 1

\* A sequence abandoned after its first item, on an instance with storage.
C5_Witness ==
    \E c \in CallIds :
        /\ calls[c].gen = "closed"
        /\ Len(calls[c].received) = 1
        /\ wf.storage
        /\ last.op = "close"

\* Every session id the instance has had or storage knows.
EarlierSessionIds ==
    {wf.session_id, "s1"} \cup DOMAIN db \cup {uuid4(k) : k \in 1..uuids}
        \cup {calls[c].session_id : c \in CallIds}

\* C6: new_session drops the cached record and gives the instance a session id
\* different from every earlier one; with storage, a record then exists under
\* the new id, the cached record is that record, and every record stored
\* before is unchanged; a load_session that follows returns the new id and
\* leaves storage as it is.
C6_NewSession ==
    [][/\ (last'.op = "new_session" /\ ops' = ops + 1) =>
              /\ wf'.session_id \notin EarlierSessionIds \cup {None}
              /\ ~wf.storage => wf'.workflow_session = Null /\ db' = db
              /\ wf.storage =>
                     /\ wf'.session_id \in DOMAIN db'
                     /\ db'[wf'.session_id].session_id = wf'.session_id
                     /\ wf'.workflow_session = Some(db'[wf'.session_id])
                     /\ \A k \in DOMAIN db : k \in DOMAIN db' /\ db'[k] = db[k]
       /\ (last.op = "new_session" /\ last'.op = "load_session" /\ ops' = ops + 1) =>
              /\ last'.ret = wf.session_id
              /\ wf'.session_id = wf.session_id
              /\ db' = db
              /\ wf.storage => wf'.workflow_session = Some(db'[wf'.session_id])]_vars

\* new_session then load_session, with the record of the previous session stored.
C6_Witness ==
    /\ last.op = "load_session"
    /\ resets = 1
    /\ wf.storage
    /\ "s1" \in DOMAIN db
    /\ wf.session_id \notin {None, "s1"}
    /\ wf.session_id \in DOMAIN db
    /\ last.ret = wf.session_id

\* C7: whenever load_session returns normally on a workflow with storage,
\* storage holds a record under the current session id and the value returned
\* is that id.
C7_LoadSessionEnsuresRecord ==
    (last.op = "load_session" /\ ~last.raised /\ wf.storage) =>
        /\ wf.session_id \in DOMAIN db
        /\ last.ret = wf.session_id

IdFields == {"workflow_id", "user_id", "session_id", "name", "session_name"}
\* The operation that sets a field on purpose.
Setter(f) ==
    CASE f = "session_id" -> "new_session"
      [] f = "name" -> "rename"
      [] f = "session_name" -> "rename_session"
      [] OTHER -> "none"

\* C8: a load never overwrites an identifier or name that is set: in every
\* step, a set workflow_id, user_id, session_id, name or session_name keeps its
\* value unless the step is the operation that sets it on purpose; and a plain
\* read_from_storage gives an unset one the value of the record, if it has one.
C8_LoadKeepsSetIds ==
    [][/\ \A f \in IdFields :
              (wf[f] # None /\ last'.op # Setter(f)) => wf'[f] = wf[f]
       /\ LoadStep("read_from_storage") =>
              LET rec == db[wf.session_id]
              IN  /\ (wf.user_id = None /\ rec.user_id # None) => wf'.user_id = rec.user_id
                  /\ (wf.workflow_id = None /\ rec.workflow_id # None) =>
                         wf'.workflow_id = rec.workflow_id
                  /\ (wf.session_name = None /\ rec.session_data.session_name # None) =>
                         wf'.session_name = rec.session_data.session_name]_vars

\* A record with another user_id and workflow_id was loaded, and the instance
\* kept its own.
C8_Witness ==
    /\ last.op = "read_from_storage"
    /\ wf.workflow_session # Null
    /\ wf.user_id = "u1" /\ Get(wf.workflow_session).user_id = "u0"
    /\ wf.workflow_id = "w1" /\ Get(wf.workflow_session).workflow_id = "w0"
    /\ wf.session_name = "sn0"

\* C9: on every call of the entry point, as the subclass routine is invoked,
\* the Agent held by the workflow has the workflow's current session_id.
C9_AgentSessionId ==
    \A c \in CallIds : calls[c].agent_sid = calls[c].session_id

\* C10: an exception raised by the subclass routine, as it is called or while
\* its lazy sequence is consumed, is logged, and the failed run appends no
\* WorkflowRun and writes nothing.
C10_RoutineFailureLogged ==
    \A c \in CallIds :
        (calls[c].outcome = "raised" \/ calls[c].gen = "raised") =>
            /\ "error" \in calls[c].logs
            /\ calls[c].appended = 0
            /\ calls[c].written = 0

\* A step in which an operation op was called on the instance.
Called(op) == last'.op = op /\ ops' = ops + 1
SessionOps == {"read_from_storage", "write_to_storage", "load_session",
               "rename", "rename_session", "delete_session"}

\* C11: on a workflow without storage no operation raises for want of
\* persistence: the session operations return normally, a call of the entry
\* point raises only where the routine itself raised, nothing is ever stored
\* or cached; read_from_storage and write_to_storage change no state and
\* return the cached record (None); and a completed run appends its
\* WorkflowRun to live memory.
C11_NoStorage ==
    [][~wf.storage =>
          /\ db' = db
          /\ wf'.workflow_session = Null
          /\ (last'.op \in SessionOps /\ ops' = ops + 1) => ~last'.raised
          /\ (Called("read_from_storage") \/ Called("write_to_storage")) =>
                 /\ UNCHANGED <<wf, agent, db, uuids, calls, resets>>
                 /\ last'.ret = None
                 /\ last'.obj = wf.workflow_session
          /\ (Called("run") /\ last'.raised) => calls'[Len(calls')].outcome = "raised"
          /\ (Called("run") /\ last'.ret = "RunResponse") =>
                 /\ Len(LiveRuns') = Len(LiveRuns) + 1
                 /\ LiveRuns'[Len(LiveRuns')].input = calls'[Len(calls')].input
          /\ (last'.op = "next" /\ last'.ret = "StopIteration" /\ last' # last) =>
                 Len(LiveRuns') = Len(LiveRuns) + 1]_vars

\* A run completed without storage, then write_to_storage was called.
C11_Witness ==
    /\ ~wf.storage
    /\ last.op = "write_to_storage"
    /\ last.ret = None
    /\ Len(LiveRuns) = 1
    /\ calls[1].outcome = "response"

\* A new instance of the same subclass with this session id, storage set and
\* nothing else, after it has read what storage holds.
FreshReader(sid, d) ==
    read_from_storage([wf |-> Construct(TRUE, None, None, sid, EmptyDict, TRUE),
                       agent |-> sid, db |-> d, uuids |-> 0, calls |-> <<>>,
                       resets |-> 0]).wf
RunsOf(w) == IF w.memory = Null THEN <<>> ELSE Get(w.memory).runs
\* Two run logs hold the same inputs and the same responses.
SameRuns(a, b, cs) ==
    /\ Len(a) = Len(b)
    /\ \A i \in 1..Len(a) :
           /\ a[i].input = b[i].input
           /\ ResponseOf(a[i], cs) = ResponseOf(b[i], cs)

\* C12: after write_to_storage on a workflow with storage and a session id,
\* the record stored under that id holds the workflow's name and ids, its
\* session name and session_state, its extra_data and its runs; and a fresh
\* instance with the same session id that reads it ends with the writer's
\* session_state, session_name, extra_data and runs.
C12_RoundTrip ==
    [][(Called("write_to_storage") /\ wf.storage /\ wf.session_id # None) =>
          /\ wf.session_id \in DOMAIN db'
          /\ LET rec == db'[wf.session_id]
                 reader == FreshReader(wf.session_id, db')
             IN  /\ rec.workflow_data.name = wf'.name
                 /\ rec.workflow_data.workflow_id = wf'.workflow_id
                 /\ rec.session_data.session_name = wf'.session_name
                 /\ rec.session_data.session_state = wf'.session_state
                 /\ rec.extra_data = wf'.extra_data
                 /\ (rec.memory = Null) = (wf'.memory = Null)
                 /\ rec.memory # Null =>
                        /\ Len(Get(rec.memory).runs) = Len(LiveRuns')
                        /\ \A i \in 1..Len(LiveRuns') :
                               /\ Get(rec.memory).runs[i].input = LiveRuns'[i].input
                               /\ Get(rec.memory).runs[i].response =
                                      ResponseOf(LiveRuns'[i], calls')
                 /\ reader.session_state = wf'.session_state
                 /\ reader.session_name = wf'.session_name
                 /\ reader.extra_data = wf'.extra_data
                 /\ SameRuns(RunsOf(reader), LiveRuns', calls')]_vars

\* A workflow with a session_state and one completed run has written itself.
C12_Witness ==
    /\ last.op = "write_to_storage"
    /\ wf.storage
    /\ wf.session_id \in DOMAIN db
    /\ wf.session_state # EmptyDict
    /\ Len(LiveRuns) = 2
    /\ FreshReader(wf.session_id, db).session_state = wf.session_state
    /\ Len(RunsOf(FreshReader(wf.session_id, db))) = 2

\* C13: merge idempotence: loading the same persisted session_state a second
\* time into the live state the first load produced leaves the live
\* session_state as it is.
C13_MergeIdempotent ==
    [][(last.op = "read_from_storage" /\ LoadStep("read_from_storage")) =>
          wf'.session_state = wf.session_state]_vars

\* The second load of a persisted {x: {a: 2, b: 2}} into a live {x: {a: 1}}.
C13_Witness ==
    /\ last.op = "read_from_storage"
    /\ ops = 2
    /\ "x" \in DOMAIN wf.session_state
    /\ wf.session_state["x"] = Mapping("a" :> 1 @@ "b" :> 2)
    /\ PersistedState["x"] = Mapping("a" :> 2 @@ "b" :> 2)

\* C14: a call whose routine returns a single RunResponse returns that
\* response stamped with the call's run_id, session_id and workflow_id;
\* exactly one WorkflowRun, pairing the call's keyword arguments with the
\* call's response, is appended to memory, its content the returned content
\* when that is text and unset otherwise; then, with storage, exactly one
\* write is made, and the record written ends with that run.
C14_SingleResponse ==
    [][(Called("run") /\ last'.ret = "RunResponse") =>
          LET c == Len(calls')
              run == LiveRuns'[Len(LiveRuns')]
          IN  /\ \E content \in Contents :
                     /\ calls'[c].result = [RunResponse(calls'[c].run_id, calls'[c].session_id,
                                                        calls'[c].workflow_id)
                                               EXCEPT !.content = content]
                     /\ calls'[c].response.content = IF IsText(content) THEN content ELSE None
              /\ ~last'.raised
              /\ calls'[c].appended = 1
              /\ Len(LiveRuns') >= 1
              /\ run.input = calls'[c].input
              /\ run.ref = c
              /\ ResponseOf(run, calls').run_id = calls'[c].run_id
              /\ Cardinality({i \in 1..Len(LiveRuns') :
                     ResponseOf(LiveRuns'[i], calls').run_id = calls'[c].run_id}) = 1
              /\ calls'[c].written = IF wf.storage THEN 1 ELSE 0
              /\ wf.storage =>
                     /\ wf'.session_id \in DOMAIN db'
                     /\ LET m == db'[wf'.session_id].memory
                        IN  /\ m # Null
                            /\ Len(Get(m).runs) = Len(LiveRuns')
                            /\ Get(m).runs[Len(LiveRuns')] =
                                   [input |-> calls'[c].input, response |-> calls'[c].response]]_vars

\* The routine returned a RunResponse with content "a"; the run is stored
\* after the run a stored session already held.
C14_Witness ==
    /\ last.op = "run" /\ last.ret = "RunResponse"
    /\ wf.storage
    /\ calls[Len(calls)].result.content = "a"
    /\ calls[Len(calls)].response.content = "a"
    /\ Len(LiveRuns) = 2
    /\ Len(Get(db[wf.session_id].memory).runs) = 2

\* C15: a call whose routine returns neither a RunResponse nor a lazy
\* sequence logs a warning, returns None and does not raise; no WorkflowRun is
\* appended and nothing is written to storage.
C15_UnexpectedReturn ==
    [][(Called("run") /\ wf.overridden /\ ~last'.raised /\ last'.ret = None) =>
          LET c == Len(calls')
          IN  /\ calls'[c].outcome = "other"
              /\ "warning" \in last'.logs
              /\ calls'[c].appended = 0
              /\ calls'[c].written = 0
              /\ db' = db
              /\ \A i \in 1..Len(LiveRuns') : LiveRuns'[i].ref # c]_vars

\* An unexpected return on a workflow whose stored session was loaded.
C15_Witness ==
    /\ last.op = "run" /\ last.ret = None /\ ~last.raised
    /\ Len(calls) >= 1
    /\ calls[Len(calls)].outcome = "other"
    /\ wf.storage
    /\ wf.workflow_session # Null
    /\ Len(LiveRuns) = 1

\* C16: the load of a stored session is best-effort: no operation raises out
\* of it (a read, a load_session, a rename, a run), and whenever a record
\* with a run log has just been read the live runs are the stored ones,
\* whatever the other entries of the record look like.
C16_BestEffortLoad ==
    /\ last.op \in SessionOps => ~last.raised
    /\ \A c \in CallIds : calls[c].outcome # "load_raised"
    /\ (last.op = "read_from_storage" /\ wf.workflow_session # Null
            /\ Get(wf.workflow_session).memory # Null) =>
           Len(LiveRuns) = Len(Get(Get(wf.workflow_session).memory).runs)

\* C17: rename and rename_session, on a workflow with storage and a session
\* id, leave the record stored under the session id with the new workflow
\* name (resp. session name), the live field with that value, every
\* session_state key the record held before still in it, and the run log the
\* record held before unchanged.
C17_RenameKeepsRecord ==
    [][((Called("rename") \/ Called("rename_session")) /\ ~last'.raised
            /\ wf.storage /\ wf.session_id # None) =>
          /\ wf.session_id \in DOMAIN db'
          /\ wf'.session_id = wf.session_id
          /\ Called("rename") =>
                 \E n \in Names : /\ wf'.name = n
                                  /\ db'[wf.session_id].workflow_data.name = n
          /\ Called("rename_session") =>
                 \E n \in Names : /\ wf'.session_name = n
                                  /\ db'[wf.session_id].session_data.session_name = n
          /\ wf.session_id \in DOMAIN db =>
                 LET old == db[wf.session_id]
                     new == db'[wf.session_id]
                 IN  /\ old.session_data.has_session_state =>
                            /\ new.session_data.has_session_state
                            /\ DOMAIN old.session_data.session_state
                                   \subseteq DOMAIN new.session_data.session_state
                     /\ old.memory # Null => new.memory = old.memory
          /\ \A k \in DOMAIN db \ {wf.session_id} : k \in DOMAIN db' /\ db'[k] = db[k]]_vars

\* A new instance with its own session_state renamed the stored session: the
\* record keeps its keys and its run.
C17_Witness ==
    /\ last.op = "rename"
    /\ ops = 1
    /\ wf.session_id = "s1"
    /\ wf.user_id = "u1"
    /\ "s1" \in DOMAIN db
    /\ db["s1"].workflow_data.name = "n1"
    /\ DOMAIN db["s1"].session_data.session_state = {"x", "y"}
    /\ db["s1"].memory = StoredBefore.memory

PersistedExtra == db[wf.session_id].extra_data

\* C18 as claimed: where both are set the live extra_data becomes the
\* persisted mapping overlaid with the live one, the live value standing under
\* every shared key; an unset live extra_data becomes the persisted mapping;
\* an absent persisted extra_data leaves the live one unchanged.
C18_ShallowOverlay ==
    [][LoadStep("read_from_storage") =>
          LET l == wf.extra_data
              p == PersistedExtra
              r == wf'.extra_data
          IN  /\ (l # Null /\ p # Null) =>
                     /\ r # Null
                     /\ Get(r) = [k \in DOMAIN Get(p) \cup DOMAIN Get(l) |->
                                     IF k \in DOMAIN Get(l) THEN Get(l)[k] ELSE Get(p)[k]]
              /\ (l = Null /\ p # Null) => r = p
              /\ p = Null => r = l]_vars

\* C18 amended: as C18, except that under a shared key where both values are
\* mappings the result is the persisted inner mapping overlaid with the live
\* inner one; under every other shared key the live value stands.
C18_DeepOverlay ==
    [][LoadStep("read_from_storage") =>
          LET l == wf.extra_data
              p == PersistedExtra
              r == wf'.extra_data
              both(k) == /\ k \in DOMAIN Get(l) /\ k \in DOMAIN Get(p)
                         /\ IsDict(Get(l)[k]) /\ IsDict(Get(p)[k])
          IN  /\ (l # Null /\ p # Null) =>
                     /\ r # Null
                     /\ DOMAIN Get(r) = DOMAIN Get(p) \cup DOMAIN Get(l)
                     /\ \A k \in DOMAIN Get(r) :
                            /\ k \notin DOMAIN Get(l) => Get(r)[k] = Get(p)[k]
                            /\ (k \in DOMAIN Get(l) /\ ~both(k)) => Get(r)[k] = Get(l)[k]
                            /\ both(k) =>
                                   /\ IsDict(Get(r)[k])
                                   /\ DOMAIN Get(r)[k].d =
                                          DOMAIN Get(p)[k].d \cup DOMAIN Get(l)[k].d
                                   /\ \A j \in DOMAIN Get(r)[k].d :
                                          Get(r)[k].d[j] = IF j \in DOMAIN Get(l)[k].d
                                                           THEN Get(l)[k].d[j]
                                                           ELSE Get(p)[k].d[j]
              /\ (l = Null /\ p # Null) => r = p
              /\ p = Null => r = l]_vars

\* A load has merged a live {x: {a: 1}, y: 1} into a persisted {x: {a: 2, b: 2}}.
C18_Witness ==
    /\ last.op = "read_from_storage"
    /\ wf.extra_data # Null
    /\ DOMAIN Get(wf.extra_data) = {"x", "y"}
    /\ Get(wf.extra_data)["x"] = Mapping("a" :> 1 @@ "b" :> 2)
    /\ Get(wf.extra_data)["y"] = Scalar(1)
    /\ DOMAIN Get(PersistedExtra) = {"x"}

\* C19: deep_copy returns without raising, whatever the instance has done
\* before, an instance with the same name, ids, session name, session_state,
\* extra_data and runs, except for the fields named in update.
C19_DeepCopy ==
    last.op = "deep_copy" =>
        /\ ~last.raised
        /\ last.obj # Null
        /\ LET copy == Get(last.obj)
           IN  /\ copy.name = wf.name
               /\ copy.workflow_id = wf.workflow_id
               /\ copy.user_id = wf.user_id
               /\ copy.session_name = wf.session_name
               /\ copy.session_state = wf.session_state
               /\ copy.extra_data = wf.extra_data
               /\ copy.session_id \in {wf.session_id, "s2"}
               /\ SameRuns(RunsOf(copy), LiveRuns, calls)

\* C20: each run owns its input and response, however calls of the entry
\* point and the consumption of their lazy sequences interleave: every item
\* a sequence yields is stamped with the ids of the call that returned it,
\* and the WorkflowRun appended when it is exhausted pairs that call's keyword
\* arguments with a response carrying that call's run_id and the text that
\* call yielded, and nothing else.
C20_RunOwnsItsResponse ==
    \A c \in CallIds :
        calls[c].outcome = "generator" =>
            /\ Len(calls[c].received) = Len(calls[c].produced)
            /\ \A i \in 1..Len(calls[c].received) :
                   calls[c].received[i] = Stamped(c, calls[c].produced[i])
            /\ (last.op = "next" /\ last.call = c /\ last.ret = "StopIteration") =>
                   LET run == LiveRuns[Len(LiveRuns)]
                   IN  /\ run.input = calls[c].input
                       /\ ResponseOf(run, calls).run_id = calls[c].run_id
                       /\ ResponseOf(run, calls).content = TextOf(calls[c].produced)

\* C21: a WorkflowRun is never mutated after it is appended: in every step,
\* every entry of live memory is still there afterwards with the input, the
\* run_id and the content it had before.
C21_RunsImmutable ==
    [][\A i \in 1..Len(LiveRuns) :
          /\ i <= Len(LiveRuns')
          /\ LiveRuns'[i].input = LiveRuns[i].input
          /\ ResponseOf(LiveRuns'[i], calls').run_id = ResponseOf(LiveRuns[i], calls).run_id
          /\ ResponseOf(LiveRuns'[i], calls').content = ResponseOf(LiveRuns[i], calls).content]_vars

\* The run log of the record stored under a session id.
StoredRuns(d, sid) ==
    IF sid \in DOMAIN d /\ d[sid].memory # Null THEN Get(d[sid].memory).runs ELSE <<>>

\* The step in which the run of call c completes: the call returns a
\* RunResponse, or the lazy sequence it returned, which no other run
\* overlapped, is exhausted.
CompletesRun(c) ==
    \/ Called("run") /\ last'.ret = "RunResponse" /\ c = Len(calls')
    \/ /\ last'.op = "next" /\ last'.ret = "StopIteration" /\ last'.call = c
       /\ c <= Len(calls) /\ calls[c].gen = "active" /\ calls[c].exclusive

\* C22: with storage, every completed run that does not overlap another run
\* makes exactly one write, and the run log of the stored record afterwards is
\* the log stored before followed by that run: one entry more, no earlier
\* entry lost or reordered.  (Where the record was deleted while the instance
\* still held runs, there is no stored log to extend.)
C22_RunLogAppendOnly ==
    [][\A c \in 1..Len(calls') :
          (wf.storage /\ CompletesRun(c)
               /\ (calls'[c].session_id \in DOMAIN db \/ LiveRuns = <<>>)) =>
              LET sid == calls'[c].session_id
                  before == StoredRuns(db, sid)
                  after == StoredRuns(db', sid)
              IN  /\ calls'[c].written = 1
                  /\ Len(after) = Len(before) + 1
                  /\ SubSeq(after, 1, Len(before)) = before
                  /\ after[Len(after)].input = calls'[c].input
                  /\ after[Len(after)].response.run_id = calls'[c].run_id]_vars

\* Two runs completed one after the other on a session that held one run.
C22_Witness ==
    /\ Len(calls) = 2
    /\ calls[1].outcome = "generator" /\ calls[1].gen = "done"
    /\ calls[2].outcome = "response"
    /\ last.op = "run"
    /\ wf.session_id = "s1"
    /\ Len(StoredRuns(db, "s1")) = 3
    /\ StoredRuns(db, "s1")[1].response.run_id = "r0"
    /\ StoredRuns(db, "s1")[2].response.run_id = calls[1].run_id
    /\ StoredRuns(db, "s1")[3].response.run_id = calls[2].run_id

\* C23: every session record handed to storage carries identifiers: each
\* record in storage has a session_id and a workflow_id that are not None.
C23_StoredRecordsHaveIds ==
    \A k \in DOMAIN db :
        /\ k # None
        /\ db[k].session_id # None
        /\ db[k].workflow_id # None

\* An operation after which the instance has just written its session.
WroteSession ==
    /\ ~last.raised
    /\ \/ last.op \in {"write_to_storage", "rename", "rename_session"}
       \/ last.op = "run" /\ last.ret = "RunResponse"

\* C24: artifact lists do not drift across load/write cycles: once the
\* instance has written its session, a further completed run,
\* read_from_storage or rename on the same session leaves the live image list
\* and the image list of the stored record with the entries they had.
C24_ArtifactsDoNotDrift ==
    [][(/\ wf.storage /\ WroteSession
        /\ wf.images # Null
        /\ wf.session_id \in DOMAIN db
        /\ ops' = ops + 1
        /\ last'.op \in {"run", "read_from_storage", "rename"}
        /\ ~last'.raised
        /\ wf'.session_id = wf.session_id
        /\ wf.session_id \in DOMAIN db') =>
          /\ wf'.images = wf.images
          /\ db'[wf.session_id].session_data.images =
                 db[wf.session_id].session_data.images]_vars

====
